---- MODULE Spec2Model ----
(***************************************************************************)
(* Ticket processing worker (src/processor/worker.py): one TicketProcessor *)
(* polling an SQS queue, fetching raw tickets from S3, enriching them and  *)
(* storing the result in DynamoDB and S3.  Every external call (receive,   *)
(* get_object, put_item, put_object, delete_message) is one step and may   *)
(* raise; the worker's position is kept in pc, mi (message index in the    *)
(* batch) and ri (record index in the message).                            *)
(***************************************************************************)
EXTENDS Integers, Sequences, FiniteSets, TLC

\* ------------------------------------------------------------------ bounds
MaxQueue == 2       \* messages on the queue at start
MaxDeliveries == 2  \* messages handed to the worker by receive calls

\* --------------------------------------------------------- configuration
max_messages == 2                     \* SQSConfig.max_messages (set by env)
raw_bucket == "tickets-raw"
enriched_bucket == "tickets-enriched"
OtherBucket == "tickets-upload"

None == "<None>"

\* value of raw_ticket and enriched while no ticket is in hand
NoTicket == [none |-> TRUE]

\* ------------------------------------------------------------ raw store
\* The raw documents the notifications point at.  A field that is missing
\* from the JSON document is missing from the record's domain.
TicketA ==
  [ticket_id |-> "T1", subject |-> <<"cannot", "login">>,
   body |-> <<"urgent", "password", "password", "login", "error">>,
   priority |-> "high",
   created_at |-> 1700, customer_id |-> "C1"]

\* its priority is none of the four levels
TicketB ==
  [ticket_id |-> "T2", subject |-> <<"feature", "request">>,
   priority |-> "urgent",
   body |-> <<"would", "like", "a", "dark", "mode", "for", "the", "dashboard",
              "because", "the", "white", "background", "is", "too", "bright",
              "at", "night", "and", "hurts", "my", "eyes">>,
   created_at |-> 1701, customer_id |-> "C2"]

\* missing customer_id
TicketC ==
  [ticket_id |-> "T3", subject |-> <<"payment", "failed">>,
   body |-> <<"refund">>, created_at |-> 1702]

RawObjects ==
  (<<raw_bucket, "a.json">> :> TicketA) @@
  (<<OtherBucket, "b.json">> :> TicketB) @@
  (<<raw_bucket, "b.json">> :> TicketB) @@
  (<<raw_bucket, "c.json">> :> TicketC)

\* -------------------------------------------------------- queue messages
S3Record(b, k) == [kind |-> "s3", bucket |-> b, key |-> k]
ManualRecord(k) == [kind |-> "manual", key |-> k]
BadRecord == [kind |-> "bad"]

RecordsBody(rs) == [kind |-> "records", Records |-> rs]
DirectBody(k) == [kind |-> "direct", key |-> k]
MalformedBody == [kind |-> "malformed"]

MessageBody ==
  [m \in {"m1", "m2", "m3", "m4", "m5"} |->
     CASE m = "m1" -> RecordsBody(<<S3Record(OtherBucket, "b.json"),
                                    ManualRecord("a.json")>>)
       [] m = "m2" -> MalformedBody
       [] m = "m3" -> DirectBody("b.json")
       [] m = "m4" -> RecordsBody(<<ManualRecord("b.json"), BadRecord>>)
       [] m = "m5" -> RecordsBody(<<S3Record(raw_bucket, "c.json"),
                                    S3Record(raw_bucket, "a.json")>>)]

MessageIds == DOMAIN MessageBody

VARIABLES
  queue,        \* messages on the queue (not yet deleted)
  visible,      \* messages of the queue a receive call may return
  pc,           \* position of the worker
  messages,     \* the batch of the current poll cycle
  mi,           \* index of the message being handled
  ri,           \* index of the record being handled
  raw_ticket,   \* result of fetch_ticket_from_s3
  enriched,     \* result of process_ticket
  table,        \* DynamoDB table: (ticket_id, created_at) -> item
  s3_enriched,  \* enriched bucket: key -> object
  stats,        \* self.stats
  clock,        \* source of processed_at
  delivered,    \* messages received so far
  cyc,          \* what happened in the current poll cycle
  overwritten,  \* keys of the enriched bucket written more than once
  exit_cause,   \* why the process left the loop ("" while it has not)
  exit_status,  \* exit status of the process (-1 while it runs)
  printed,      \* number of stats summaries printed
  start_time,   \* self.stats["start_time"] (0 before the construction)
  flags,        \* outcome of the model calls of one call of process_ticket
  urgency_out,  \* what a call of classify_urgency gave
  fleet,        \* several workers: batch, index and phase of each
  expired       \* messages whose visibility timeout ran out while in hand

vars == <<queue, visible, pc, messages, mi, ri, raw_ticket, enriched,
          table, s3_enriched, stats, clock, delivered, cyc, overwritten,
          exit_cause, exit_status, printed, start_time, flags,
          urgency_out, fleet, expired>>

\* the process-level variables, left alone by the steps of the loop
proc == <<exit_cause, exit_status, printed>>

\* left alone by every step of the single worker but its construction
kept == <<start_time, flags, urgency_out, fleet, expired>>

\* the variables of the functions called on their own and of the fleet
apart == <<flags, urgency_out, fleet, expired>>

\* ------------------------------------------------------------ text helpers
Min(a, b) == IF a < b THEN a ELSE b

Get(d, f, default) == IF f \in DOMAIN d THEN d[f] ELSE default

RECURSIVE JoinWords(_)
JoinWords(ws) ==
  IF Len(ws) = 0 THEN ""
  ELSE IF Len(ws) = 1 THEN ws[1]
  ELSE ws[1] \o " " \o JoinWords(Tail(ws))

\* s[:n] of a Python string
Prefix(s, n) == SubSeq(s, 1, Min(n, Len(s)))

\* number of matches of \bkeyword\b in the text; a keyword is a sequence of
\* words, a text is a sequence of lower-case words
Matches(kw, text) ==
  Cardinality({i \in 1..(Len(text) - Len(kw) + 1) :
                 SubSeq(text, i, i + Len(kw) - 1) = kw})

\* f"{subject} {body}".lower()
TicketText(t) == Get(t, "subject", <<>>) \o Get(t, "body", <<>>)

\* ------------------------------------------------------------- classifier
\* Confidences are kept in hundredths (0.9 is 90).
IntentOrder ==
  <<"login_issue", "payment_issue", "bug_report", "feature_request">>

INTENT_KEYWORDS ==
  [i \in {"login_issue", "payment_issue", "bug_report", "feature_request"} |->
     CASE i = "login_issue" -> {<<"login">>, <<"password">>, <<"log", "in">>}
       [] i = "payment_issue" -> {<<"payment">>, <<"refund">>, <<"charged">>}
       [] i = "bug_report" -> {<<"bug">>, <<"error">>, <<"not", "working">>}
       [] i = "feature_request" -> {<<"feature">>, <<"request">>}]

UrgencyOrder == <<"critical", "high", "medium", "low">>

URGENCY_KEYWORDS ==
  [u \in {"critical", "high", "medium", "low"} |->
     CASE u = "critical" -> {<<"urgent">>, <<"outage">>, <<"right", "now">>}
       [] u = "high" -> {<<"important">>, <<"cannot">>, <<"error">>}
       [] u = "medium" -> {<<"question">>, <<"help">>, <<"how", "to">>}
       [] u = "low" -> {<<"suggestion">>, <<"feature">>, <<"minor">>}]

UrgencyConfidence ==
  [u \in {"critical", "high", "medium", "low"} |->
     CASE u = "critical" -> 90 [] u = "high" -> 80
       [] u = "medium" -> 70 [] u = "low" -> 70]

RECURSIVE SumMatches(_, _)
SumMatches(kws, text) ==
  IF kws = {} THEN 0
  ELSE LET kw == CHOOSE k \in kws : TRUE
       IN Matches(kw, text) + SumMatches(kws \ {kw}, text)

IntentScore(i, text) == SumMatches(INTENT_KEYWORDS[i], text)

classify_intent(t) ==
  LET text == TicketText(t)
      scored == {j \in 1..Len(IntentOrder) : IntentScore(IntentOrder[j], text) > 0}
  IN IF text = <<>> THEN [label |-> "general_inquiry", conf |-> 0]
     ELSE IF scored = {} THEN [label |-> "general_inquiry", conf |-> 50]
     ELSE LET best == CHOOSE j \in scored :
                        \A k \in scored :
                          \/ IntentScore(IntentOrder[k], text) < IntentScore(IntentOrder[j], text)
                          \/ /\ IntentScore(IntentOrder[k], text) = IntentScore(IntentOrder[j], text)
                             /\ j <= k
          IN [label |-> IntentOrder[best],
              conf |-> Min((IntentScore(IntentOrder[best], text) * 100) \div 3, 100)]

\* str.lower() on the priorities the model uses
Lower(p) ==
  CASE p = "HIGH" -> "high"
    [] p = "Critical" -> "critical"
    [] OTHER -> p

\* classify_urgency raises (AttributeError) when priority is present and null
UrgencyRaises(t) == "priority" \in DOMAIN t /\ t.priority = None

\* variant: an explicit priority is taken as it is
classify_urgency_unchecked(t) ==
  LET text == TicketText(t)
      hit == {j \in 1..Len(UrgencyOrder) :
                \E kw \in URGENCY_KEYWORDS[UrgencyOrder[j]] : Matches(kw, text) > 0}
  IN IF Get(t, "priority", "") # ""
       THEN [label |-> t.priority, conf |-> 100]
     ELSE IF text = <<>> THEN [label |-> "medium", conf |-> 60]
     ELSE IF hit # {}
       THEN LET first == CHOOSE j \in hit : \A k \in hit : j <= k
            IN [label |-> UrgencyOrder[first],
                conf |-> UrgencyConfidence[UrgencyOrder[first]]]
     ELSE [label |-> "medium", conf |-> 60]

classify_urgency(t) ==
  LET text == TicketText(t)
      hit == {j \in 1..Len(UrgencyOrder) :
                \E kw \in URGENCY_KEYWORDS[UrgencyOrder[j]] : Matches(kw, text) > 0}
  IN IF Lower(Get(t, "priority", "")) \in {"critical", "high", "medium", "low"}
       THEN [label |-> Lower(t.priority), conf |-> 100]
     ELSE IF text = <<>> THEN [label |-> "medium", conf |-> 60]
     ELSE IF hit # {}
       THEN LET first == CHOOSE j \in hit : \A k \in hit : j <= k
            IN [label |-> UrgencyOrder[first],
                conf |-> UrgencyConfidence[UrgencyOrder[first]]]
     ELSE [label |-> "medium", conf |-> 60]

\* The sentiment pipeline (DistilBERT) is a fixed function of the text; this
\* stands for its output on the tickets of RawObjects.
ClassifierPipeline(text) ==
  IF \E i \in 1..Len(text) : text[i] \in {"cannot", "error", "failed"}
    THEN [label |-> "NEGATIVE", score |-> 98]
  ELSE [label |-> "POSITIVE", score |-> 52]

\* model_ok: the pipeline call returned; otherwise the except branch
classify_sentiment(t, model_ok) ==
  LET text == TicketText(t)
      result == ClassifierPipeline(text)
  IN IF text = <<>> THEN [label |-> "NEUTRAL", conf |-> 50]
     ELSE IF ~model_ok THEN [label |-> "NEUTRAL", conf |-> 50]
     ELSE IF 45 <= result.score /\ result.score <= 55
       THEN [label |-> "NEUTRAL", conf |-> 50]
     ELSE [label |-> result.label, conf |-> result.score]

\* variant: a failure of the sentiment model makes the whole classification
\* fall back to its defaults
get_classification_summary_fallback(t, sentiment_ok) ==
  IF sentiment_ok
    THEN [intent |-> classify_intent(t).label,
          intent_confidence |-> classify_intent(t).conf,
          urgency |-> classify_urgency(t).label,
          urgency_confidence |-> classify_urgency(t).conf,
          sentiment |-> classify_sentiment(t, sentiment_ok).label,
          sentiment_confidence |-> classify_sentiment(t, sentiment_ok).conf]
  ELSE [intent |-> "general_inquiry", intent_confidence |-> 50,
        urgency |-> "medium", urgency_confidence |-> 60,
        sentiment |-> "NEUTRAL", sentiment_confidence |-> 50]

get_classification_summary(t, sentiment_ok) ==
  [intent |-> classify_intent(t).label,
   intent_confidence |-> classify_intent(t).conf,
   urgency |-> classify_urgency(t).label,
   urgency_confidence |-> classify_urgency(t).conf,
   sentiment |-> classify_sentiment(t, sentiment_ok).label,
   sentiment_confidence |-> classify_sentiment(t, sentiment_ok).conf]

\* ------------------------------------------------------------- summarizer
ShortBodyWords == 20
MaxSummaryInputWords == 700
FallbackChars == 100

\* The summarization pipeline (DistilBART, do_sample=False) is a fixed
\* function of the text; this stands for its output.
SummarizerPipeline(text) == JoinWords(SubSeq(text, 1, Min(5, Len(text))))

EndsWithPunctuation(s) ==
  Len(s) > 0 /\ SubSeq(s, Len(s), Len(s)) \in {".", "!", "?"}

\* model_ok: the pipeline call returned; otherwise the except branch
generate_summary(t, model_ok) ==
  LET subject == Get(t, "subject", <<>>)
      body == Get(t, "body", <<>>)
      text == IF subject # <<>> THEN subject \o body ELSE body
      input == SubSeq(text, 1, Min(MaxSummaryInputWords, Len(text)))
      summary == SummarizerPipeline(input)
  IN IF subject = <<>> /\ body = <<>> THEN ""
     ELSE IF body = <<>> THEN JoinWords(subject)
     ELSE IF Len(body) < ShortBodyWords
       THEN IF subject # <<>> THEN JoinWords(subject)
            ELSE Prefix(JoinWords(body), FallbackChars)
     ELSE IF ~model_ok
       THEN IF subject # <<>> THEN Prefix(JoinWords(subject), FallbackChars)
            ELSE Prefix(JoinWords(body), FallbackChars)
     ELSE IF summary # "" /\ ~EndsWithPunctuation(summary)
       THEN summary \o "."
     ELSE summary

\* ------------------------------------------------------------- embeddings
EmbeddingDim == 384

generate_ticket_embedding(t) ==
  IF TicketText(t) = <<>> THEN [dim |-> EmbeddingDim, of |-> <<>>]
  ELSE [dim |-> EmbeddingDim, of |-> TicketText(t)]

\* ---------------------------------------------------------------- schemas
RequiredFields == {"ticket_id", "subject", "body", "created_at", "customer_id"}

\* RawTicket(**raw_ticket) does not raise
ValidRawTicket(t) == RequiredFields \subseteq DOMAIN t

DefaultMetadata == [source |-> "unknown", language |-> "en", tags |-> <<>>]

RawTicket(t) ==
  [ticket_id |-> Get(t, "ticket_id", None), subject |-> Get(t, "subject", <<>>),
   body |-> Get(t, "body", <<>>), priority |-> Get(t, "priority", None),
   created_at |-> Get(t, "created_at", 0),
   customer_id |-> Get(t, "customer_id", None),
   metadata |-> Get(t, "metadata", DefaultMetadata)]

\* EnrichmentData(...) does not raise: the confidences are within [0, 1]
ValidEnrichmentData(e) ==
  /\ 0 <= e.intent_confidence /\ e.intent_confidence <= 100
  /\ 0 <= e.urgency_confidence /\ e.urgency_confidence <= 100
  /\ 0 <= e.sentiment_confidence /\ e.sentiment_confidence <= 100

\* variant: when the summarizer fails the record is built without a summary
EnrichmentDataPartial(t, sentiment_ok, summary_ok, now) ==
  LET classification == get_classification_summary(t, sentiment_ok)
      head == [embedding |-> generate_ticket_embedding(t),
               intent |-> classification.intent,
               intent_confidence |-> classification.intent_confidence,
               urgency |-> classification.urgency,
               urgency_confidence |-> classification.urgency_confidence,
               sentiment |-> classification.sentiment,
               sentiment_confidence |-> classification.sentiment_confidence,
               processed_at |-> now,
               model_version |-> "1.0.0"]
  IN IF summary_ok /\ generate_summary(t, summary_ok) # ""
       THEN head @@ [summary |-> generate_summary(t, summary_ok)]
     ELSE head

EnrichmentData(t, sentiment_ok, summary_ok, now) ==
  LET classification == get_classification_summary(t, sentiment_ok)
  IN [embedding |-> generate_ticket_embedding(t),
      intent |-> classification.intent,
      intent_confidence |-> classification.intent_confidence,
      urgency |-> classification.urgency,
      urgency_confidence |-> classification.urgency_confidence,
      sentiment |-> classification.sentiment,
      sentiment_confidence |-> classification.sentiment_confidence,
      summary |-> generate_summary(t, summary_ok),
      processed_at |-> now,
      model_version |-> "1.0.0"]

from_raw(raw, enrichment) ==
  [ticket_id |-> raw.ticket_id, subject |-> raw.subject, body |-> raw.body,
   priority |-> raw.priority, created_at |-> raw.created_at,
   customer_id |-> raw.customer_id, metadata |-> raw.metadata,
   enrichment |-> enrichment]

S3Key(ticket_id) == ticket_id \o ".json"

\* variant: the pointer is the bare ticket id
from_enriched_bare_pointer(e) ==
  [ticket_id |-> e.ticket_id, created_at |-> e.created_at,
   subject |-> e.subject, customer_id |-> e.customer_id,
   intent |-> e.enrichment.intent, urgency |-> e.enrichment.urgency,
   sentiment |-> e.enrichment.sentiment, summary |-> e.enrichment.summary,
   processed_at |-> e.enrichment.processed_at,
   s3_key |-> e.ticket_id]

from_enriched(e) ==
  [ticket_id |-> e.ticket_id, created_at |-> e.created_at,
   subject |-> e.subject, customer_id |-> e.customer_id,
   intent |-> e.enrichment.intent, urgency |-> e.enrichment.urgency,
   sentiment |-> e.enrichment.sentiment, summary |-> e.enrichment.summary,
   processed_at |-> e.enrichment.processed_at,
   s3_key |-> S3Key(e.ticket_id)]

\* variant: the schema validation is skipped
ProcessRaisesUnvalidated(t, embedding_ok, sentiment_ok, summary_ok) ==
  \/ ~embedding_ok
  \/ UrgencyRaises(t)
  \/ ~ValidEnrichmentData(EnrichmentData(t, sentiment_ok, summary_ok, 0))

\* variant: a failure of the summarizer is not caught
ProcessRaisesOnSummary(t, embedding_ok, sentiment_ok, summary_ok) ==
  \/ ~ValidRawTicket(t)
  \/ ~embedding_ok
  \/ UrgencyRaises(t)
  \/ ~summary_ok
  \/ ~ValidEnrichmentData(EnrichmentData(t, sentiment_ok, summary_ok, 0))

\* process_ticket raises: schema validation, the embedding model, the
\* classifiers or the EnrichmentData validation failed
ProcessRaises(t, embedding_ok, sentiment_ok, summary_ok) ==
  \/ ~ValidRawTicket(t)
  \/ ~embedding_ok
  \/ UrgencyRaises(t)
  \/ ~ValidEnrichmentData(EnrichmentData(t, sentiment_ok, summary_ok, 0))

process_ticket(t, sentiment_ok, summary_ok, now) ==
  from_raw(RawTicket(t), EnrichmentData(t, sentiment_ok, summary_ok, now))

\* ------------------------------------------------------------------ worker
Event(e, m, r) == [ev |-> e, m |-> m, r |-> r]

\* the sequences of distinct elements of S of length at most n
RECURSIVE Batches(_, _)
Batches(S, n) ==
  IF n = 0 \/ S = {} THEN {<<>>}
  ELSE {<<>>} \cup UNION {{<<x>> \o b : b \in Batches(S \ {x}, n - 1)} : x \in S}

Body == MessageBody[messages[mi]]

\* the model calls of one enrichment: which of them returned
AllOk == [embedding_ok |-> TRUE, sentiment_ok |-> TRUE, summary_ok |-> TRUE]

\* the workers of a fleet on one queue, and a worker without a batch
Workers == {"w1", "w2"}

Idle == [batch |-> <<>>, idx |-> 0, phase |-> "idle"]

Init ==
  /\ queue \in {q \in SUBSET MessageIds : Cardinality(q) <= MaxQueue}
  /\ visible = queue
  /\ pc = "start"
  /\ messages = <<>>
  /\ mi = 0
  /\ ri = 0
  /\ raw_ticket = NoTicket
  /\ enriched = NoTicket
  /\ table = {}
  /\ s3_enriched = {}
  /\ stats = [tickets_processed |-> 0, tickets_failed |-> 0]
  /\ clock = 1
  /\ delivered = 0
  /\ cyc = {}
  /\ overwritten = {}
  /\ exit_cause = ""
  /\ exit_status = -1
  /\ printed = 0
  /\ start_time = 0
  /\ flags = AllOk
  /\ urgency_out = NoTicket
  /\ fleet = [w \in Workers |-> Idle]
  /\ expired = {}

\* the positions inside the loop of run_forever
LoopPcs ==
  {"poll", "return", "sleep", "parse", "fetch", "process", "put_item",
   "put_object", "delete"}

\* the positions inside the handling of one message
MessagePcs == {"parse", "fetch", "process", "put_item", "put_object", "delete"}

\* the process ends: the locals of the worker are gone
Exit(cause, status, next_pc) ==
  /\ pc' = next_pc
  /\ exit_cause' = cause
  /\ exit_status' = status
  /\ messages' = <<>>
  /\ mi' = 0
  /\ ri' = 0
  /\ raw_ticket' = NoTicket
  /\ enriched' = NoTicket
  /\ cyc' = {}
  /\ UNCHANGED <<queue, visible, table, s3_enriched, stats, clock, delivered,
                 overwritten, printed>>
  /\ UNCHANGED kept

\* variant: the failure is logged and main goes on to construct the worker
preload_all_models_continue ==
  /\ pc = "start"
  /\ pc' = "construct"
  /\ \E ok \in BOOLEAN : exit_cause' = IF ok THEN exit_cause ELSE "preload"
  /\ UNCHANGED <<queue, visible, messages, mi, ri, raw_ticket, enriched,
                 table, s3_enriched, stats, clock, delivered, cyc,
                 overwritten, exit_status, printed>>
  /\ UNCHANGED kept

\* main: preload_all_models(); a failure is logged and the process exits 1
preload_all_models ==
  /\ pc = "start"
  /\ \/ /\ pc' = "construct"
        /\ UNCHANGED <<queue, visible, messages, mi, ri, raw_ticket, enriched,
                       table, s3_enriched, stats, clock, delivered, cyc,
                       overwritten, proc, kept>>
     \/ Exit("preload", 1, "exited")

\* main: worker = TicketProcessor(config); an exception of the constructor
\* (get_queue_url) is not caught and ends the process
construct_worker ==
  /\ pc = "construct"
  /\ \/ /\ pc' = "poll"
        /\ stats' = [tickets_processed |-> 0, tickets_failed |-> 0]
        /\ start_time' = clock
        /\ UNCHANGED <<queue, visible, messages, mi, ri, raw_ticket, enriched,
                       table, s3_enriched, clock, delivered, cyc, overwritten,
                       proc, apart>>
     \/ Exit("construct", 1, "exited")

\* variant: the per-message handler catches the interrupt as it catches an
\* Exception, and the loop goes on
keyboard_interrupt_swallowed ==
  /\ pc \in MessagePcs
  /\ exit_cause' = "interrupt"
  /\ stats' = [stats EXCEPT !.tickets_failed = @ + 1]
  /\ cyc' = cyc \cup {Event("failed", mi, 0)}
  /\ raw_ticket' = NoTicket
  /\ enriched' = NoTicket
  /\ ri' = 0
  /\ IF mi < Len(messages)
       THEN mi' = mi + 1 /\ pc' = "parse"
       ELSE mi' = mi /\ pc' = "return"
  /\ UNCHANGED <<queue, visible, messages, table, s3_enriched, clock,
                 delivered, overwritten, exit_status, printed>>
  /\ UNCHANGED kept

\* KeyboardInterrupt while run_forever is in its loop: it is no Exception, so
\* only the handler of run_forever catches it
keyboard_interrupt ==
  /\ pc \in LoopPcs
  /\ Exit("interrupt", exit_status, "interrupted")

\* variant: the counters are cleared once they are printed
print_stats_resets ==
  /\ pc = "interrupted"
  /\ pc' = "exited"
  /\ printed' = printed + 1
  /\ exit_status' = 0
  /\ stats' = [tickets_processed |-> 0, tickets_failed |-> 0]
  /\ UNCHANGED <<queue, visible, messages, mi, ri, raw_ticket, enriched,
                 table, s3_enriched, clock, delivered, cyc, overwritten,
                 exit_cause>>
  /\ UNCHANGED kept

\* except KeyboardInterrupt: self.print_stats(); run_forever and main return
print_stats ==
  /\ pc = "interrupted"
  /\ pc' = "exited"
  /\ printed' = printed + 1
  /\ exit_status' = 0
  /\ UNCHANGED <<queue, visible, messages, mi, ri, raw_ticket, enriched,
                 table, s3_enriched, stats, clock, delivered, cyc, overwritten,
                 exit_cause>>
  /\ UNCHANGED kept

\* the loop "for message in messages" moves on; after the last message
\* poll_and_process returns len(messages)
NextMessage ==
  /\ raw_ticket' = NoTicket
  /\ enriched' = NoTicket
  /\ ri' = 0
  /\ IF mi < Len(messages)
       THEN mi' = mi + 1 /\ pc' = "parse"
       ELSE mi' = mi /\ pc' = "return"

\* variant: the except clause encloses the whole loop, so the first failure
\* ends the batch
FailMessageEndsBatch(events) ==
  /\ stats' = [stats EXCEPT !.tickets_failed = @ + 1]
  /\ cyc' = cyc \cup events \cup {Event("failed", mi, 0)}
  /\ raw_ticket' = NoTicket
  /\ enriched' = NoTicket
  /\ ri' = 0
  /\ mi' = mi
  /\ pc' = "return"

\* variant: the per-message handler re-raises, and the exception ends the
\* process
FailMessageCrash(events) ==
  /\ stats' = [stats EXCEPT !.tickets_failed = @ + 1]
  /\ cyc' = cyc \cup events \cup {Event("failed", mi, 0)}
  /\ raw_ticket' = NoTicket
  /\ enriched' = NoTicket
  /\ ri' = 0
  /\ mi' = mi
  /\ pc' = "exited"

\* except Exception (per message): count the failure, keep the message
FailMessage(events) ==
  /\ stats' = [stats EXCEPT !.tickets_failed = @ + 1]
  /\ cyc' = cyc \cup events \cup {Event("failed", mi, 0)}
  /\ NextMessage

\* self.sqs.receive_message(...)
receive_message ==
  /\ UNCHANGED overwritten
  /\ UNCHANGED proc
  /\ UNCHANGED kept
  /\ pc = "poll"
  /\ \/ \* the call raises, or returns no messages: return 0
        /\ pc' = "return"
        /\ messages' = <<>>
        /\ mi' = 0
        /\ cyc' = {}
        /\ UNCHANGED <<queue, visible, ri, raw_ticket, enriched, table,
                       s3_enriched, stats, clock, delivered>>
     \/ /\ \E batch \in Batches(visible, max_messages) :
             /\ batch # <<>>
             /\ delivered + Len(batch) <= MaxDeliveries
             /\ delivered' = delivered + Len(batch)
             /\ messages' = batch
             /\ visible' = visible \ {batch[i] : i \in 1..Len(batch)}
        /\ mi' = 1
        /\ ri' = 0
        /\ pc' = "parse"
        /\ cyc' = {}
        /\ UNCHANGED <<queue, raw_ticket, enriched, table, s3_enriched,
                       stats, clock>>

\* variant: poll_and_process returns the number of messages it acknowledged
poll_returned_counts_successes ==
  /\ UNCHANGED overwritten
  /\ UNCHANGED proc
  /\ UNCHANGED kept
  /\ pc = "return"
  /\ pc' = IF \E e \in cyc : e.ev = "deleted" THEN "poll" ELSE "sleep"
  /\ messages' = <<>>
  /\ mi' = 0
  /\ cyc' = {}
  /\ UNCHANGED <<queue, visible, ri, raw_ticket, enriched, table, s3_enriched,
                 stats, clock, delivered>>

\* run_forever takes the result of poll_and_process: it sleeps if no message
\* was processed and polls again otherwise; the batch is dropped
poll_returned ==
  /\ UNCHANGED overwritten
  /\ UNCHANGED proc
  /\ UNCHANGED kept
  /\ pc = "return"
  /\ pc' = IF Len(messages) = 0 THEN "sleep" ELSE "poll"
  /\ messages' = <<>>
  /\ mi' = 0
  /\ cyc' = {}
  /\ UNCHANGED <<queue, visible, ri, raw_ticket, enriched, table, s3_enriched,
                 stats, clock, delivered>>

\* time.sleep(delay_between_polls)
sleep ==
  /\ UNCHANGED overwritten
  /\ UNCHANGED proc
  /\ UNCHANGED kept
  /\ pc = "sleep"
  /\ pc' = "poll"
  /\ UNCHANGED <<queue, visible, messages, mi, ri, raw_ticket, enriched,
                 table, s3_enriched, stats, clock, delivered, cyc>>

\* the queue makes an unacknowledged message visible again; the worker looks
\* at visibility only in receive_message, so the timeouts that elapse during
\* a cycle are taken when the worker is back at the poll
visibility_timeout ==
  /\ UNCHANGED overwritten
  /\ UNCHANGED proc
  /\ UNCHANGED kept
  /\ pc = "poll"
  /\ \E m \in queue \ visible : visible' = visible \cup {m}
  /\ UNCHANGED <<queue, pc, messages, mi, ri, raw_ticket, enriched, table,
                 s3_enriched, stats, clock, delivered, cyc>>

\* variant: a body that does not parse is taken as a body without records
parse_body_lenient ==
  /\ UNCHANGED overwritten
  /\ UNCHANGED proc
  /\ UNCHANGED kept
  /\ pc = "parse"
  /\ IF Body.kind = "records" /\ Len(Body.Records) > 0
       THEN /\ pc' = "fetch"
            /\ ri' = 1
            /\ UNCHANGED <<queue, visible, messages, mi, raw_ticket, enriched,
                           table, s3_enriched, stats, clock, delivered, cyc>>
     ELSE /\ pc' = "delete"
          /\ UNCHANGED <<queue, visible, messages, mi, ri, raw_ticket,
                         enriched, table, s3_enriched, stats, clock, delivered,
                         cyc>>

\* variant: a body that does not parse is counted and removed from the queue
parse_body_drops_poison ==
  /\ UNCHANGED overwritten
  /\ UNCHANGED proc
  /\ UNCHANGED kept
  /\ pc = "parse"
  /\ IF Body.kind = "malformed"
       THEN /\ FailMessage({})
            /\ queue' = queue \ {messages[mi]}
            /\ visible' = visible \ {messages[mi]}
            /\ UNCHANGED <<messages, table, s3_enriched, clock, delivered>>
     ELSE IF Body.kind = "records" /\ Len(Body.Records) > 0
       THEN /\ pc' = "fetch"
            /\ ri' = 1
            /\ UNCHANGED <<queue, visible, messages, mi, raw_ticket, enriched,
                           table, s3_enriched, stats, clock, delivered, cyc>>
     ELSE /\ pc' = "delete"
          /\ UNCHANGED <<queue, visible, messages, mi, ri, raw_ticket,
                         enriched, table, s3_enriched, stats, clock, delivered,
                         cyc>>

\* variant: the records of a message are taken from the last one
parse_body_last_first ==
  /\ UNCHANGED overwritten
  /\ UNCHANGED proc
  /\ UNCHANGED kept
  /\ pc = "parse"
  /\ IF Body.kind = "malformed"
       THEN /\ FailMessage({})
            /\ UNCHANGED <<queue, visible, messages, table, s3_enriched,
                           clock, delivered>>
     ELSE IF Body.kind = "records" /\ Len(Body.Records) > 0
       THEN /\ pc' = "fetch"
            /\ ri' = Len(Body.Records)
            /\ UNCHANGED <<queue, visible, messages, mi, raw_ticket, enriched,
                           table, s3_enriched, stats, clock, delivered, cyc>>
     ELSE /\ pc' = "delete"
          /\ UNCHANGED <<queue, visible, messages, mi, ri, raw_ticket,
                         enriched, table, s3_enriched, stats, clock, delivered,
                         cyc>>

\* body = json.loads(message["Body"]); if "Records" in body: ...
parse_body ==
  /\ UNCHANGED overwritten
  /\ UNCHANGED proc
  /\ UNCHANGED kept
  /\ pc = "parse"
  /\ IF Body.kind = "malformed"
       THEN /\ FailMessage({})
            /\ UNCHANGED <<queue, visible, messages, table, s3_enriched,
                           clock, delivered>>
     ELSE IF Body.kind = "records" /\ Len(Body.Records) > 0
       THEN /\ pc' = "fetch"
            /\ ri' = 1
            /\ UNCHANGED <<queue, visible, messages, mi, raw_ticket, enriched,
                           table, s3_enriched, stats, clock, delivered, cyc>>
     ELSE /\ pc' = "delete"
          /\ UNCHANGED <<queue, visible, messages, mi, ri, raw_ticket,
                         enriched, table, s3_enriched, stats, clock, delivered,
                         cyc>>

\* bucket and key of a record of the message
Unit(record) ==
  IF record.kind = "s3" THEN <<record.bucket, record.key>>
  ELSE <<raw_bucket, record.key>>

\* variant: a record that cannot be fetched is counted and skipped
fetch_ticket_from_s3_skips ==
  /\ UNCHANGED overwritten
  /\ UNCHANGED proc
  /\ UNCHANGED kept
  /\ pc = "fetch"
  /\ LET record == Body.Records[ri]
     IN \/ /\ stats' = [stats EXCEPT !.tickets_failed = @ + 1]
           /\ cyc' = cyc \cup {Event("failed", mi, 0)}
           /\ IF ri < Len(Body.Records)
                THEN /\ ri' = ri + 1
                     /\ UNCHANGED <<pc, mi, raw_ticket, enriched>>
                ELSE NextMessage
           /\ UNCHANGED <<queue, visible, messages, table, s3_enriched,
                          clock, delivered>>
        \/ /\ record.kind # "bad"
           /\ Unit(record) \in DOMAIN RawObjects
           /\ raw_ticket' = RawObjects[Unit(record)]
           /\ cyc' = cyc \cup {Event("fetched", mi, ri)}
           /\ pc' = "process"
           /\ UNCHANGED <<queue, visible, messages, mi, ri, enriched, table,
                          s3_enriched, stats, clock, delivered>>

\* extraction of bucket and key, then fetch_ticket_from_s3(bucket, key)
fetch_ticket_from_s3 ==
  /\ UNCHANGED overwritten
  /\ UNCHANGED proc
  /\ UNCHANGED kept
  /\ pc = "fetch"
  /\ LET record == Body.Records[ri]
     IN \/ \* KeyError on the record, get_object or json.loads raises
           /\ FailMessage({})
           /\ UNCHANGED <<queue, visible, messages, table, s3_enriched,
                          clock, delivered>>
        \/ /\ record.kind # "bad"
           /\ Unit(record) \in DOMAIN RawObjects
           /\ raw_ticket' = RawObjects[Unit(record)]
           /\ cyc' = cyc \cup {Event("fetched", mi, ri)}
           /\ pc' = "process"
           /\ UNCHANGED <<queue, visible, messages, mi, ri, enriched, table,
                          s3_enriched, stats, clock, delivered>>

\* enriched = self.process_ticket(raw_ticket)
process_ticket_step ==
  /\ UNCHANGED overwritten
  /\ UNCHANGED proc
  /\ UNCHANGED kept
  /\ pc = "process"
  /\ \E embedding_ok, sentiment_ok, summary_ok \in BOOLEAN :
       IF ProcessRaises(raw_ticket, embedding_ok, sentiment_ok, summary_ok)
         THEN /\ FailMessage({})
              /\ UNCHANGED <<queue, visible, messages, table, s3_enriched,
                             clock, delivered>>
       ELSE /\ enriched' = process_ticket(raw_ticket, sentiment_ok, summary_ok, clock)
            /\ clock' = clock + 1
            /\ cyc' = cyc \cup {Event("processed", mi, ri)}
            /\ pc' = "put_item"
            /\ UNCHANGED <<queue, visible, messages, mi, ri, raw_ticket,
                           table, s3_enriched, stats, delivered>>

\* variant: the item is appended instead of replacing the one with its key
PutItemAppend(t, item) == t \cup {item}

\* variant: an item whose key is in the table is left as it is
PutItemIfAbsent(t, item) ==
  IF \E i \in t : i.ticket_id = item.ticket_id /\ i.created_at = item.created_at
    THEN t
  ELSE t \cup {item}

\* self.table.put_item(Item=...): an item with the same key is replaced
PutItem(t, item) ==
  {i \in t : ~(i.ticket_id = item.ticket_id /\ i.created_at = item.created_at)}
    \cup {item}

\* variant: the object is written under the bare ticket id
PutObjectBareKey(s, bucket, key, body) ==
  {o \in s : ~(o.Bucket = bucket /\ o.Key = body.ticket_id)}
    \cup {[Bucket |-> bucket, Key |-> body.ticket_id, Body |-> body]}

\* self.s3.put_object(Bucket, Key, Body): an object with the same key is replaced
PutObject(s, bucket, key, body) ==
  {o \in s : ~(o.Bucket = bucket /\ o.Key = key)}
    \cup {[Bucket |-> bucket, Key |-> key, Body |-> body]}

\* store_results, first write
store_results_first ==
  /\ UNCHANGED overwritten
  /\ UNCHANGED proc
  /\ UNCHANGED kept
  /\ pc = "put_item"
  /\ \/ /\ FailMessage({})
        /\ UNCHANGED <<queue, visible, messages, table, s3_enriched, clock,
                       delivered>>
     \/ /\ table' = PutItem(table, from_enriched(enriched))
        /\ cyc' = cyc \cup {Event("put_item", mi, ri)}
        /\ pc' = "put_object"
        /\ UNCHANGED <<queue, visible, messages, mi, ri, raw_ticket, enriched,
                       s3_enriched, stats, clock, delivered>>

\* variant: store_results does not re-raise a failure of the second write
store_results_second_swallow ==
  /\ UNCHANGED proc
  /\ UNCHANGED kept
  /\ pc = "put_object"
  /\ \E ok \in BOOLEAN :
       /\ s3_enriched' =
            IF ok THEN PutObject(s3_enriched, enriched_bucket,
                                 S3Key(enriched.ticket_id), enriched)
            ELSE s3_enriched
       /\ cyc' = cyc \cup (IF ok THEN {Event("put_object", mi, ri)} ELSE {})
                     \cup {Event("stored", mi, ri)}
  /\ overwritten' = overwritten
  /\ stats' = [stats EXCEPT !.tickets_processed = @ + 1]
  /\ raw_ticket' = NoTicket
  /\ enriched' = NoTicket
  /\ IF ri < Len(Body.Records)
       THEN ri' = ri + 1 /\ pc' = "fetch"
       ELSE ri' = ri /\ pc' = "delete"
  /\ UNCHANGED <<queue, visible, messages, mi, table, clock, delivered>>

\* store_results, second write, then stats["tickets_processed"] += 1 and
\* the next record of the message
store_results_second ==
  /\ UNCHANGED proc
  /\ UNCHANGED kept
  /\ pc = "put_object"
  /\ \/ /\ FailMessage({})
        /\ UNCHANGED <<queue, visible, messages, table, s3_enriched, clock,
                       delivered, overwritten>>
     \/ /\ s3_enriched' = PutObject(s3_enriched, enriched_bucket,
                                    S3Key(enriched.ticket_id), enriched)
        /\ overwritten' =
             IF \E o \in s3_enriched : o.Key = S3Key(enriched.ticket_id)
               THEN overwritten \cup {S3Key(enriched.ticket_id)}
               ELSE overwritten
        /\ stats' = [stats EXCEPT !.tickets_processed = @ + 1]
        /\ cyc' = cyc \cup {Event("put_object", mi, ri), Event("stored", mi, ri)}
        /\ raw_ticket' = NoTicket
        /\ enriched' = NoTicket
        /\ IF ri < Len(Body.Records)
             THEN ri' = ri + 1 /\ pc' = "fetch"
             ELSE ri' = ri /\ pc' = "delete"
        /\ UNCHANGED <<queue, visible, messages, mi, table, clock, delivered>>

\* variant: the loop moves on without the delete call
delete_message_skipped ==
  /\ UNCHANGED overwritten
  /\ UNCHANGED proc
  /\ UNCHANGED kept
  /\ pc = "delete"
  /\ NextMessage
  /\ UNCHANGED <<queue, visible, messages, table, s3_enriched, stats, clock,
                 delivered, cyc>>

\* variant: a failure of the delete call is caught by the outer handler,
\* which ends the cycle
delete_message_uncaught ==
  /\ UNCHANGED overwritten
  /\ UNCHANGED proc
  /\ UNCHANGED kept
  /\ pc = "delete"
  /\ \/ /\ cyc' = cyc \cup {Event("delete_call", mi, 0), Event("failed", mi, 0)}
        /\ pc' = "return"
        /\ UNCHANGED <<queue, visible, messages, mi, ri, raw_ticket, enriched,
                       table, s3_enriched, stats, clock, delivered>>
     \/ /\ queue' = queue \ {messages[mi]}
        /\ visible' = visible \ {messages[mi]}
        /\ cyc' = cyc \cup {Event("delete_call", mi, 0), Event("deleted", mi, 0)}
        /\ NextMessage
        /\ UNCHANGED <<messages, table, s3_enriched, stats, clock, delivered>>

\* self.sqs.delete_message(QueueUrl, ReceiptHandle)
delete_message ==
  /\ UNCHANGED overwritten
  /\ UNCHANGED proc
  /\ UNCHANGED kept
  /\ pc = "delete"
  /\ \/ /\ FailMessage({Event("delete_call", mi, 0)})
        /\ UNCHANGED <<queue, visible, messages, table, s3_enriched, clock,
                       delivered>>
     \/ /\ queue' = queue \ {messages[mi]}
        /\ visible' = visible \ {messages[mi]}
        /\ cyc' = cyc \cup {Event("delete_call", mi, 0), Event("deleted", mi, 0)}
        /\ NextMessage
        /\ UNCHANGED <<messages, table, s3_enriched, stats, clock, delivered>>

Next ==
  \/ preload_all_models
  \/ construct_worker
  \/ keyboard_interrupt
  \/ print_stats
  \/ receive_message
  \/ poll_returned
  \/ sleep
  \/ visibility_timeout
  \/ parse_body
  \/ fetch_ticket_from_s3
  \/ process_ticket_step
  \/ store_results_first
  \/ store_results_second
  \/ delete_message

Spec == Init /\ [][Next]_vars

TypeOK ==
  /\ visible \subseteq queue
  /\ queue \subseteq MessageIds
  /\ pc \in LoopPcs \cup {"start", "construct", "interrupted", "exited"}

\* ------------------------------------------------- the current poll cycle
Happened(e, m, r) == Event(e, m, r) \in cyc

BatchIndexes == 1..Len(messages)

RecordsOf(i) ==
  IF MessageBody[messages[i]].kind = "records"
    THEN MessageBody[messages[i]].Records ELSE <<>>

\* the worker has moved on from message i of the batch
Handled(i) == Happened("failed", i, 0) \/ Happened("deleted", i, 0)

CycleDone == pc = "return" /\ messages # <<>>

HasItem(ticket_id) == \E item \in table : item.ticket_id = ticket_id

HasBlob(ticket_id) ==
  \E o \in s3_enriched : o.Bucket = enriched_bucket /\ o.Key = S3Key(ticket_id)

\* record r of message i went through fetch, enrichment and both writes in
\* this cycle, and both stores hold a record of its ticket
UnitStored(i, r) ==
  /\ Happened("fetched", i, r)
  /\ Happened("processed", i, r)
  /\ Happened("put_item", i, r)
  /\ Happened("put_object", i, r)
  /\ RecordsOf(i)[r].kind # "bad"
  /\ Unit(RecordsOf(i)[r]) \in DOMAIN RawObjects
  /\ HasItem(RawObjects[Unit(RecordsOf(i)[r])].ticket_id)
  /\ HasBlob(RawObjects[Unit(RecordsOf(i)[r])].ticket_id)

AllUnitsStored(i) == \A r \in 1..Len(RecordsOf(i)) : UnitStored(i, r)

\* C1: delete_message is called for a message only after every record of
\* the message was fetched, enriched and written to both stores in the same
\* poll cycle; a message one of whose records failed is never deleted.
AckOnlyAfterAllStored ==
  \A i \in BatchIndexes :
    /\ Happened("delete_call", i, 0) => AllUnitsStored(i)
    /\ Happened("deleted", i, 0) => AllUnitsStored(i) /\ messages[i] \notin queue
    /\ ~AllUnitsStored(i) /\ Handled(i) =>
         ~Happened("delete_call", i, 0) /\ messages[i] \in queue

AckOnlyAfterAllStoredWitness ==
  \E i \in BatchIndexes :
    /\ Len(RecordsOf(i)) = 2
    /\ Happened("deleted", i, 0)
    /\ AllUnitsStored(i)

\* C2: a projection never exists without its blob (the blob is written
\* before the projection).
ProjectionHasBlob ==
  \A item \in table :
    \E o \in s3_enriched : o.Bucket = enriched_bucket /\ o.Key = item.s3_key

\* C3: at the end of a poll cycle every message of the batch has been
\* handled; the failed ones are kept and not acknowledged, all others were
\* stored and acknowledged, whatever happened to their neighbours.
BatchIsolation ==
  /\ \A i \in BatchIndexes :
       (pc = "return" \/ i < mi) =>
         /\ Handled(i)
         /\ Happened("failed", i, 0) =>
              ~Happened("deleted", i, 0) /\ messages[i] \in queue
         /\ ~Happened("failed", i, 0) =>
              AllUnitsStored(i) /\ messages[i] \notin queue
  /\ pc \in MessagePcs => mi \in BatchIndexes

BatchIsolationWitness ==
  /\ CycleDone
  /\ Len(messages) = 2
  /\ Happened("failed", 1, 0)
  /\ Happened("deleted", 2, 0)
  /\ Len(RecordsOf(2)) > 0

\* C4: a direct key message {"key": k} is acknowledged only after the unit
\* (raw_bucket, k) was fetched, enriched and stored.
DirectKeyProcessed ==
  \A i \in BatchIndexes :
    MessageBody[messages[i]].kind = "direct" /\ Happened("delete_call", i, 0) =>
      /\ Happened("fetched", i, 1)
      /\ Happened("put_object", i, 1)
      /\ HasBlob(RawObjects[<<raw_bucket, MessageBody[messages[i]].key>>].ticket_id)

\* C5: a message with an empty or malformed body fails like any processing
\* error: no delete call, the message stays on the queue, nothing is fetched
\* or written for it.
MalformedRetained ==
  \A i \in BatchIndexes :
    MessageBody[messages[i]].kind = "malformed" =>
      /\ \A e \in cyc : e.m = i => e.ev = "failed"
      /\ messages[i] \in queue
      /\ (pc = "return" \/ i < mi) => Happened("failed", i, 0)

MalformedRetainedWitness ==
  \E i \in BatchIndexes :
    /\ MessageBody[messages[i]].kind = "malformed"
    /\ Happened("failed", i, 0)
    /\ stats.tickets_failed > 0

\* C6: a message with a record that exposes no container and key is a parse
\* error as a whole: none of its records is fetched or stored in the cycle.
ParseAllOrNothing ==
  \A i \in BatchIndexes :
    (\E r \in 1..Len(RecordsOf(i)) : RecordsOf(i)[r].kind = "bad") =>
      \A e \in cyc : e.m = i => e.ev = "failed"

\* C7: a write to either store happens only after fetch, schema validation
\* and enrichment of the unit succeeded; a raw document without a required
\* field is never written and its message is not acknowledged.
NoWriteBeforeEnrichment ==
  /\ \A e \in cyc :
       e.ev \in {"put_item", "put_object"} =>
         /\ Happened("fetched", e.m, e.r)
         /\ Happened("processed", e.m, e.r)
         /\ ValidRawTicket(RawObjects[Unit(RecordsOf(e.m)[e.r])])
  /\ \A e \in cyc :
       e.ev = "fetched" /\ ~ValidRawTicket(RawObjects[Unit(RecordsOf(e.m)[e.r])]) =>
         /\ ~Happened("processed", e.m, e.r)
         /\ ~Happened("delete_call", e.m, 0)
  /\ \A item \in table : item.customer_id # None
  /\ \A o \in s3_enriched : o.Body.customer_id # None
  /\ pc \in {"put_item", "put_object"} =>
       ValidRawTicket(raw_ticket) /\ enriched # NoTicket

NoWriteBeforeEnrichmentWitness ==
  \E i \in BatchIndexes :
    /\ Happened("fetched", i, 1)
    /\ ~ValidRawTicket(RawObjects[Unit(RecordsOf(i)[1])])
    /\ Happened("failed", i, 0)

\* fields of a stored record that come from the raw document
SameRawDocument(a, b) ==
  /\ a.ticket_id = b.ticket_id
  /\ a.subject = b.subject
  /\ a.body = b.body
  /\ a.priority = b.priority
  /\ a.created_at = b.created_at
  /\ a.customer_id = b.customer_id

OneRowPerKey ==
  /\ \A a, b \in table :
       a.ticket_id = b.ticket_id /\ a.created_at = b.created_at => a = b
  /\ \A a, b \in s3_enriched : a.Bucket = b.Bucket /\ a.Key = b.Key => a = b
  /\ \A o \in s3_enriched : o.Key = S3Key(o.Body.ticket_id)

\* C8 as stated: reprocessing a raw document leaves one blob and one row
\* per key, and the new content equals the old one except for processed_at.
IdempotentUpsertExact ==
  [][/\ OneRowPerKey'
     /\ \A o \in s3_enriched : \A n \in s3_enriched' :
          o.Key = n.Key /\ SameRawDocument(o.Body, n.Body) =>
            [n.Body.enrichment EXCEPT !.processed_at = 0] =
              [o.Body.enrichment EXCEPT !.processed_at = 0]
     /\ \A o \in table : \A n \in table' :
          o.ticket_id = n.ticket_id /\ o.created_at = n.created_at
            /\ o.subject = n.subject /\ o.customer_id = n.customer_id =>
            [n EXCEPT !.processed_at = 0] = [o EXCEPT !.processed_at = 0]]_vars

\* the enrichment fields that do not come from a model call with a fallback
StableEnrichment(e) ==
  [e EXCEPT !.processed_at = 0, !.sentiment = "", !.sentiment_confidence = 0,
            !.summary = ""]

\* C8 (amended): reprocessing a raw document leaves one blob and one row per
\* key, and the new content equals the old one except for processed_at and
\* for sentiment, sentiment_confidence and summary, which take their
\* fallback value when the model call fails in one of the processings.
IdempotentUpsert ==
  [][/\ OneRowPerKey'
     /\ \A o \in s3_enriched : \A n \in s3_enriched' :
          o.Key = n.Key /\ SameRawDocument(o.Body, n.Body) =>
            StableEnrichment(n.Body.enrichment) = StableEnrichment(o.Body.enrichment)
     /\ \A o \in table : \A n \in table' :
          o.ticket_id = n.ticket_id /\ o.created_at = n.created_at
            /\ o.subject = n.subject /\ o.customer_id = n.customer_id =>
            [n EXCEPT !.processed_at = 0, !.sentiment = "", !.summary = ""] =
              [o EXCEPT !.processed_at = 0, !.sentiment = "", !.summary = ""]]_vars

\* a blob and a row were overwritten by a later processing of the document
IdempotentUpsertWitness ==
  /\ \E o \in s3_enriched :
       /\ o.Key \in overwritten
       /\ \E item \in table :
            /\ item.s3_key = o.Key
            /\ item.processed_at = o.Body.enrichment.processed_at
            /\ item.processed_at > 1
  /\ Cardinality(s3_enriched) = 1
  /\ Cardinality(table) = 1

\* no store_results call is in progress
StoreResultsReturned == pc \notin {"put_item", "put_object"}

FullyWrittenDeleted ==
  \A i \in BatchIndexes :
    /\ pc = "return" \/ i < mi
    /\ Len(RecordsOf(i)) > 0
    /\ \A r \in 1..Len(RecordsOf(i)) : Happened("stored", i, r)
    => messages[i] \notin queue

\* C10 (amended): for a message all of whose records were written to both
\* stores in the cycle, delete_message is called in that cycle, and the
\* message stays on the queue only if that call raised.
FullyWrittenAcked ==
  \A i \in BatchIndexes :
    /\ pc = "return" \/ i < mi
    /\ Len(RecordsOf(i)) > 0
    /\ \A r \in 1..Len(RecordsOf(i)) : Happened("stored", i, r)
    => /\ Happened("delete_call", i, 0)
       /\ messages[i] \in queue <=> Happened("failed", i, 0)
       /\ messages[i] \notin queue <=> Happened("deleted", i, 0)

FullyWrittenAckedWitness ==
  \E i \in BatchIndexes :
    /\ Len(RecordsOf(i)) > 0
    /\ \A r \in 1..Len(RecordsOf(i)) : Happened("stored", i, r)
    /\ Happened("delete_call", i, 0)
    /\ Happened("failed", i, 0)
    /\ messages[i] \in queue

\* --------------------------------------------------------------- statistics
UnitPcs == {"fetch", "process", "put_item", "put_object"}

\* the step stores the unit in hand
UnitSucceeds == Event("stored", mi, ri) \in cyc' \ cyc

\* the step fails the unit in hand
UnitFails == pc \in UnitPcs /\ Event("failed", mi, 0) \in cyc' \ cyc

\* C11: the counters move per unit: tickets_processed rises by one in the
\* step that stores a unit and in no other step, and tickets_failed rises by
\* one in the step in which a unit fails and in no other step.
StatsPerUnit ==
  [][/\ stats'.tickets_processed =
          stats.tickets_processed + (IF UnitSucceeds THEN 1 ELSE 0)
     /\ stats'.tickets_failed =
          stats.tickets_failed + (IF UnitFails THEN 1 ELSE 0)]_vars

\* ------------------------------------------------------ the life of the loop
\* C12: a failure of a unit or of the receive call never ends the loop: the
\* step that counts a failure goes on to the next message or to the return
\* of poll_and_process, a receive call that delivers nothing returns, after
\* the return run_forever sleeps or polls, after the sleep it polls, and the
\* loop is left only with a cause that is no such error.
LoopSurvivesErrors ==
  [][/\ stats'.tickets_failed > stats.tickets_failed
          => pc' \in {"parse", "return"}
     /\ pc = "poll" /\ pc' # "poll" /\ delivered' = delivered
          => pc' \in {"return", "interrupted"}
     /\ pc = "return" /\ pc' # "return"
          => pc' \in {"poll", "sleep", "interrupted"}
     /\ pc = "sleep" /\ pc' # "sleep" => pc' \in {"poll", "interrupted"}
     /\ pc \in LoopPcs /\ pc' \notin LoopPcs
          => pc' = "interrupted" /\ exit_cause' = "interrupt"]_vars

LoopSurvivesErrorsWitness ==
  /\ pc = "poll"
  /\ exit_cause = ""
  /\ stats.tickets_failed = 2

\* C13: when the models cannot be loaded at startup the process has exited
\* with status 1 and no worker was constructed: no message was received,
\* nothing was fetched, stored or deleted, and no stats were printed.
PreloadFailureBeforeWorker ==
  exit_cause = "preload" =>
    /\ pc = "exited"
    /\ exit_status = 1
    /\ delivered = 0
    /\ visible = queue
    /\ messages = <<>>
    /\ raw_ticket = NoTicket
    /\ table = {}
    /\ s3_enriched = {}
    /\ stats = [tickets_processed |-> 0, tickets_failed |-> 0]
    /\ printed = 0

PreloadFailureBeforeWorkerWitness ==
  /\ exit_cause = "preload"
  /\ pc = "exited"
  /\ queue # {}

\* C14: after a KeyboardInterrupt in the loop no receive call is started and
\* no store or queue is touched; the only step left to the worker prints the
\* stats, for the first and only time, and ends the process with status 0;
\* after that nothing happens.
InterruptStopsWorker ==
  [][/\ exit_cause = "interrupt"
          => /\ pc' \in {"interrupted", "exited"}
             /\ UNCHANGED <<queue, visible, delivered, table, s3_enriched,
                            stats, messages>>
     /\ pc = "interrupted" /\ pc' # "interrupted"
          => pc' = "exited" /\ printed' = 1 /\ exit_status' = 0
     /\ pc = "exited" => UNCHANGED vars
     /\ printed' <= 1
     /\ pc' = "exited" /\ exit_cause' = "interrupt"
          => printed' = 1 /\ exit_status' = 0]_vars

\* the interrupt came while a delivered message was in the pipeline: the
\* message is neither counted nor acknowledged
InterruptStopsWorkerWitness ==
  /\ pc = "exited"
  /\ exit_cause = "interrupt"
  /\ printed = 1
  /\ exit_status = 0
  /\ delivered = 1
  /\ queue \ visible # {}
  /\ stats = [tickets_processed |-> 0, tickets_failed |-> 0]
  /\ table # {}

\* ------------------------------------------------------------ message loss
\* the documents a message points at, in either shape of a notification
Referenced(m) ==
  LET b == MessageBody[m]
  IN IF b.kind = "records"
       THEN {Unit(b.Records[r]) : r \in {q \in 1..Len(b.Records) :
                                           b.Records[q].kind # "bad"}}
     ELSE IF b.kind = "direct" THEN {<<raw_bucket, b.key>>}
     ELSE {}

\* C15: a message is removed from the queue only when every raw document it
\* points at has its projection and its blob.
NoMessageLoss ==
  \A i \in BatchIndexes :
    Happened("deleted", i, 0) =>
      \A u \in Referenced(messages[i]) \cap DOMAIN RawObjects :
        HasItem(RawObjects[u].ticket_id) /\ HasBlob(RawObjects[u].ticket_id)

\* C16: a message whose body does not parse stays on the queue in every
\* step; each time the worker handles it the failure is counted once, the
\* message is neither deleted nor kept from redelivery, and nothing in the
\* worker counts or caps its receipts.
MalformedRetriedForever ==
  [][\A m \in queue :
       MessageBody[m].kind = "malformed" =>
         /\ m \in queue'
         /\ m \in visible => m \in visible' \/ delivered' > delivered
         /\ pc = "parse" /\ messages[mi] = m /\ pc' # "interrupted"
              => /\ stats'.tickets_failed = stats.tickets_failed + 1
                 /\ Event("failed", mi, 0) \in cyc'
                 /\ Event("delete_call", mi, 0) \notin cyc'
                 /\ pc' \in {"parse", "return"}]_vars

\* the malformed message was received twice and counted twice
MalformedRetriedForeverWitness ==
  /\ queue = {"m2"}
  /\ visible = {"m2"}
  /\ delivered = 2
  /\ stats = [tickets_processed |-> 0, tickets_failed |-> 2]
  /\ pc = "poll"

\* C17: every row of the table carries the pointer "{ticket_id}.json", two
\* rows never share (ticket_id, created_at), every blob lies under the key
\* made of its own ticket id, and after a store_results that returned
\* normally the pointer of the row of the ticket leads to the blob of that
\* ticket in the enriched bucket.
PointerResolves ==
  /\ \A item \in table : item.s3_key = item.ticket_id \o ".json"
  /\ \A a, b \in table :
       a.ticket_id = b.ticket_id /\ a.created_at = b.created_at => a = b
  /\ \A o \in s3_enriched :
       o.Bucket = enriched_bucket /\ o.Key = o.Body.ticket_id \o ".json"
  /\ \A i \in BatchIndexes :
       \A r \in 1..Len(RecordsOf(i)) :
         Happened("stored", i, r) =>
           LET raw == RawObjects[Unit(RecordsOf(i)[r])]
           IN \E item \in table :
                /\ item.ticket_id = raw.ticket_id
                /\ item.created_at = raw.created_at
                /\ \E o \in s3_enriched :
                     /\ o.Bucket = enriched_bucket
                     /\ o.Key = item.s3_key
                     /\ o.Body.ticket_id = item.ticket_id
                     /\ o.Body.created_at = item.created_at

PointerResolvesWitness ==
  /\ pc = "delete"
  /\ Happened("stored", mi, 1)
  /\ Happened("stored", mi, 2)
  /\ Cardinality(table) = 2
  /\ Cardinality(s3_enriched) = 2

\* ------------------------------------------------------ enrichment results
UrgencyLevels == {"critical", "high", "medium", "low"}

WithinBounds(e) ==
  /\ e.intent_confidence \in 0..100
  /\ e.urgency_confidence \in 0..100
  /\ e.sentiment_confidence \in 0..100
  /\ e.urgency \in UrgencyLevels

\* C18: the enrichment of the ticket process_ticket returned, and of every
\* ticket that was stored, has its three confidences within [0, 1] and an
\* urgency that is one of the four levels.
EnrichmentWithinBounds ==
  /\ enriched # NoTicket => WithinBounds(enriched.enrichment)
  /\ \A o \in s3_enriched : WithinBounds(o.Body.enrichment)
  /\ \A item \in table : item.urgency \in UrgencyLevels

\* a stored ticket whose priority is none of the levels, and one whose
\* intent confidence is at the cap
EnrichmentWithinBoundsWitness ==
  /\ \E o \in s3_enriched :
       /\ o.Body.priority \notin UrgencyLevels
       /\ o.Body.priority # None
       /\ o.Body.enrichment.urgency = "low"
  /\ \E o \in s3_enriched : o.Body.enrichment.intent_confidence = 100

\* C19: the intent and the urgency of a ticket that process_ticket returned
\* are those of every earlier enrichment of the same raw document that is
\* in the stores, whatever became of the model calls of either enrichment.
LabelsReproducible ==
  enriched # NoTicket =>
    /\ \A o \in s3_enriched :
         SameRawDocument(o.Body, enriched) =>
           /\ o.Body.enrichment.intent = enriched.enrichment.intent
           /\ o.Body.enrichment.urgency = enriched.enrichment.urgency
    /\ \A item \in table :
         item.ticket_id = enriched.ticket_id /\ item.created_at = enriched.created_at
           => /\ item.intent = enriched.enrichment.intent
              /\ item.urgency = enriched.enrichment.urgency

\* a second enrichment of a stored document, at another time and with
\* another outcome of the sentiment model
LabelsReproducibleWitness ==
  /\ enriched # NoTicket
  /\ \E o \in s3_enriched :
       /\ SameRawDocument(o.Body, enriched)
       /\ o.Body.enrichment.processed_at # enriched.enrichment.processed_at
       /\ o.Body.enrichment.sentiment # enriched.enrichment.sentiment

\* ------------------------------------------------------------------- order
\* C20: processing is sequential: the worker holds at most one unit, the
\* one at (mi, ri); a record is fetched only after every earlier record of
\* its message was stored; a message is touched only after every earlier
\* message of the batch was handled; between two cycles no batch is held,
\* and poll_and_process returns only when every message was handled.
SequentialProcessing ==
  /\ raw_ticket # NoTicket =>
       /\ pc \in {"process", "put_item", "put_object"}
       /\ raw_ticket = RawObjects[Unit(Body.Records[ri])]
       /\ Happened("fetched", mi, ri)
       /\ ~Happened("stored", mi, ri)
  /\ enriched # NoTicket =>
       /\ pc \in {"put_item", "put_object"}
       /\ enriched.ticket_id = raw_ticket.ticket_id
  /\ \A e \in cyc :
       /\ e.m \in 1..mi
       /\ \A i \in 1..(e.m - 1) : Handled(i)
       /\ e.m = mi /\ pc \in UnitPcs => e.r <= ri
       /\ e.ev = "fetched" => \A q \in 1..(e.r - 1) : Happened("stored", e.m, q)
  /\ pc \in MessagePcs => \A i \in 1..(mi - 1) : Handled(i)
  /\ pc \in {"poll", "sleep"} => messages = <<>> /\ cyc = {}
  /\ pc = "return" => \A i \in BatchIndexes : Handled(i)

\* the second record of the second message of a batch is in the pipeline
SequentialProcessingWitness ==
  /\ Len(messages) = 2
  /\ mi = 2
  /\ ri = 2
  /\ pc = "put_object"
  /\ Happened("stored", 2, 1)
  /\ Handled(1)

\* ---------------------------------------------- several workers, one queue
\* Each worker runs poll_and_process on the same queue; the stores are left
\* out, the handling of a message is one step that succeeds or fails.
solo ==
  <<pc, messages, mi, ri, raw_ticket, enriched, table, s3_enriched, stats,
    clock, delivered, cyc, overwritten, exit_cause, exit_status, printed,
    start_time, flags, urgency_out>>

InitFleet ==
  /\ queue \in {q \in SUBSET MessageIds : Cardinality(q) <= MaxQueue}
  /\ visible = queue
  /\ fleet = [w \in Workers |-> Idle]
  /\ expired = {}
  /\ pc = "poll"
  /\ messages = <<>>
  /\ mi = 0
  /\ ri = 0
  /\ raw_ticket = NoTicket
  /\ enriched = NoTicket
  /\ table = {}
  /\ s3_enriched = {}
  /\ stats = [tickets_processed |-> 0, tickets_failed |-> 0]
  /\ clock = 1
  /\ delivered = 0
  /\ cyc = {}
  /\ overwritten = {}
  /\ exit_cause = ""
  /\ exit_status = -1
  /\ printed = 0
  /\ start_time = 1
  /\ flags = AllOk
  /\ urgency_out = NoTicket

\* the messages of its batch the worker has received and not yet handled
InHand(w) ==
  IF fleet[w].phase = "idle" THEN {}
  ELSE {fleet[w].batch[i] : i \in fleet[w].idx..Len(fleet[w].batch)}

\* the message the worker is processing or acknowledging
Processing(w) ==
  IF fleet[w].phase = "idle" THEN {} ELSE {fleet[w].batch[fleet[w].idx]}

\* the worker is done with the message in hand: the next message of the
\* batch, or back to the poll
FleetNext(w) ==
  IF fleet[w].idx < Len(fleet[w].batch)
    THEN [fleet EXCEPT ![w].idx = @ + 1, ![w].phase = "work"]
  ELSE [fleet EXCEPT ![w] = Idle]

Done(w) == {<<w, fleet[w].batch[fleet[w].idx]>>}

\* variant: a received message stays visible to the other receive calls
fleet_receive_peek(w) ==
  /\ fleet[w].phase = "idle"
  /\ \E batch \in Batches(visible, max_messages) :
       /\ batch # <<>>
       /\ fleet' = [fleet EXCEPT ![w] = [batch |-> batch, idx |-> 1,
                                         phase |-> "work"]]
  /\ UNCHANGED <<queue, visible, expired, solo>>

\* self.sqs.receive_message(...): the messages returned are hidden from
\* every receive call until their visibility timeout
fleet_receive(w) ==
  /\ fleet[w].phase = "idle"
  /\ \E batch \in Batches(visible, max_messages) :
       /\ batch # <<>>
       /\ fleet' = [fleet EXCEPT ![w] = [batch |-> batch, idx |-> 1,
                                         phase |-> "work"]]
       /\ visible' = visible \ {batch[i] : i \in 1..Len(batch)}
  /\ UNCHANGED <<queue, expired, solo>>

\* fetch, process_ticket and store_results for the records of the message:
\* all of them succeed, or one raises and the message is left
fleet_process(w) ==
  /\ fleet[w].phase = "work"
  /\ \/ /\ fleet' = [fleet EXCEPT ![w].phase = "delete"]
        /\ UNCHANGED expired
     \/ /\ fleet' = FleetNext(w)
        /\ expired' = expired \ Done(w)
  /\ UNCHANGED <<queue, visible, solo>>

\* self.sqs.delete_message(...), which may raise
fleet_delete(w) ==
  /\ fleet[w].phase = "delete"
  /\ \/ /\ queue' = queue \ Processing(w)
        /\ visible' = visible \ Processing(w)
     \/ UNCHANGED <<queue, visible>>
  /\ fleet' = FleetNext(w)
  /\ expired' = expired \ Done(w)
  /\ UNCHANGED solo

\* the visibility timeout of an unacknowledged message runs out, whoever
\* still has it in hand
fleet_visibility_timeout(m) ==
  /\ m \in queue \ visible
  /\ visible' = visible \cup {m}
  /\ expired' = expired \cup {<<w, m>> : w \in {v \in Workers : m \in InHand(v)}}
  /\ UNCHANGED <<queue, fleet, solo>>

NextFleet ==
  \/ \E w \in Workers : fleet_receive(w)
  \/ \E w \in Workers : fleet_process(w)
  \/ \E w \in Workers : fleet_delete(w)
  \/ \E m \in MessageIds : fleet_visibility_timeout(m)

SpecFleet == InitFleet /\ [][NextFleet]_vars

\* C21: two workers are at the same message at the same time only if the
\* visibility timeout of the message ran out while one of them had it in
\* hand; a message handled and acknowledged within its timeout is with one
\* worker only.
NoConcurrentProcessing ==
  \A v, w \in Workers :
    v # w =>
      \A m \in InHand(v) \cap InHand(w) :
        <<v, m>> \in expired \/ <<w, m>> \in expired

\* two workers at work on two messages, no timeout has run out
NoConcurrentProcessingWitness ==
  /\ fleet["w1"].phase = "work"
  /\ fleet["w2"].phase = "delete"
  /\ Processing("w1") # Processing("w2")
  /\ expired = {}
  /\ Cardinality(queue) = 2

\* ----------------------------------------------------------------- backoff
\* C22: when poll_and_process has returned, run_forever sleeps if and only
\* if the cycle received no message; the sleep is entered from nowhere
\* else, it ends in a new poll, and only a poll receives messages.
BackoffExactlyAfterEmpty ==
  [][/\ pc = "return" /\ pc' \in {"sleep", "poll"}
          => (pc' = "sleep" <=> messages = <<>>)
     /\ pc' = "sleep" => pc \in {"sleep", "return"}
     /\ pc = "sleep" /\ pc' # "sleep"
          => pc' \in {"poll", "interrupted"} /\ delivered' = delivered
     /\ delivered' # delivered => pc = "poll" /\ pc' = "parse"]_vars

\* the worker sleeps after an empty receive; an earlier cycle had received
\* a message, which failed, and was followed by no sleep
BackoffExactlyAfterEmptyWitness ==
  /\ pc = "sleep"
  /\ delivered = 1
  /\ stats.tickets_failed = 1
  /\ stats.tickets_processed = 0

\* ------------------------------------------- the enrichment, call by call
\* classify_urgency and process_ticket called on one raw document each,
\* over a range of documents and of outcomes of the model calls.
Absent == "<absent>"

Raised == [raised |-> TRUE]

Priorities == {Absent, None, "HIGH", "low", "urgent", ""}

LongText == TicketB.body

Subjects == {<<>>, <<"urgent", "outage">>, <<"minor", "question">>,
             <<"hello">>, LongText}

Bodies == {<<>>, <<"cannot", "login">>, <<"thanks">>, LongText}

MakeTicket(p, subject, body, complete) ==
  LET core == [ticket_id |-> "T9", subject |-> subject, body |-> body,
               created_at |-> 1709]
      prio == IF p = Absent THEN core ELSE core @@ [priority |-> p]
  IN IF complete THEN prio @@ [customer_id |-> "C9"] ELSE prio

TicketSpace ==
  {MakeTicket(p, s, b, c) :
     p \in Priorities, s \in Subjects, b \in Bodies, c \in BOOLEAN}

FlagSpace ==
  [embedding_ok : BOOLEAN, sentiment_ok : BOOLEAN, summary_ok : BOOLEAN]

InitEnrich ==
  /\ raw_ticket \in TicketSpace
  /\ flags \in FlagSpace
  /\ urgency_out = NoTicket
  /\ enriched = NoTicket
  /\ pc = "call_classify"
  /\ queue = {}
  /\ visible = {}
  /\ messages = <<>>
  /\ mi = 0
  /\ ri = 0
  /\ table = {}
  /\ s3_enriched = {}
  /\ stats = [tickets_processed |-> 0, tickets_failed |-> 0]
  /\ clock = 1
  /\ delivered = 0
  /\ cyc = {}
  /\ overwritten = {}
  /\ exit_cause = ""
  /\ exit_status = -1
  /\ printed = 0
  /\ start_time = 1
  /\ fleet = [w \in Workers |-> Idle]
  /\ expired = {}

\* urgency, confidence = classify_urgency(ticket)
classify_urgency_call ==
  /\ pc = "call_classify"
  /\ urgency_out' = IF UrgencyRaises(raw_ticket) THEN Raised
                    ELSE classify_urgency(raw_ticket)
  /\ pc' = "call_process"
  /\ UNCHANGED <<queue, visible, messages, mi, ri, raw_ticket, enriched,
                 table, s3_enriched, stats, clock, delivered, cyc, overwritten,
                 proc, start_time, flags, fleet, expired>>

\* enriched = self.process_ticket(raw_ticket)
process_ticket_call ==
  /\ pc = "call_process"
  /\ enriched' =
       IF ProcessRaises(raw_ticket, flags.embedding_ok, flags.sentiment_ok,
                        flags.summary_ok)
         THEN Raised
       ELSE process_ticket(raw_ticket, flags.sentiment_ok, flags.summary_ok,
                           clock)
  /\ pc' = "done"
  /\ UNCHANGED <<queue, visible, messages, mi, ri, raw_ticket, table,
                 s3_enriched, stats, clock, delivered, cyc, overwritten,
                 proc, kept>>

NextEnrich ==
  \/ classify_urgency_call
  \/ process_ticket_call

SpecEnrich == InitEnrich /\ [][NextEnrich]_vars

EnrichmentFields ==
  {"embedding", "intent", "intent_confidence", "urgency", "urgency_confidence",
   "sentiment", "sentiment_confidence", "summary", "processed_at",
   "model_version"}

\* C23: the record process_ticket returned and every blob in the enriched
\* bucket carry every enrichment field, and every row of the table carries
\* every field of the projection.
EnrichmentComplete ==
  /\ enriched # NoTicket => DOMAIN enriched.enrichment = EnrichmentFields
  /\ \A o \in s3_enriched : DOMAIN o.Body.enrichment = EnrichmentFields
  /\ \A item \in table :
       {"intent", "urgency", "sentiment", "summary", "processed_at"}
         \subseteq DOMAIN item

\* a record enriched while the sentiment model and the summarizer failed
EnrichmentCompleteWitness ==
  /\ pc = "put_item"
  /\ enriched.enrichment.sentiment = "NEUTRAL"
  /\ enriched.enrichment.summary = "feature request"
  /\ s3_enriched # {}

\* the urgency the keywords give: the highest level with a keyword in the
\* text, medium when there is none
KeywordUrgency(t) ==
  LET text == Get(t, "subject", <<>>) \o Get(t, "body", <<>>)
      has(u) == \E kw \in URGENCY_KEYWORDS[u] : Matches(kw, text) > 0
  IN IF has("critical") THEN [label |-> "critical", conf |-> 90]
     ELSE IF has("high") THEN [label |-> "high", conf |-> 80]
     ELSE IF has("medium") THEN [label |-> "medium", conf |-> 70]
     ELSE IF has("low") THEN [label |-> "low", conf |-> 70]
     ELSE [label |-> "medium", conf |-> 60]

\* C24: a document with every required field and with no priority, or with
\* priority null, is enriched when every model call returns, and its
\* urgency is the one its keywords give.
OptionalPriorityEnriched ==
  /\ pc = "done"
  /\ ValidRawTicket(raw_ticket)
  /\ "priority" \notin DOMAIN raw_ticket \/ raw_ticket.priority = None
  /\ flags = AllOk
  => /\ enriched # Raised
     /\ enriched.enrichment.urgency = KeywordUrgency(raw_ticket).label

\* C25: classify_urgency returns the explicit priority with confidence 1.0
\* when it is one of the four levels in any case of letters, and the
\* urgency of the keywords otherwise.
UrgencyPrecedence ==
  pc # "call_classify" =>
    urgency_out =
      IF "priority" \in DOMAIN raw_ticket
           /\ Lower(raw_ticket.priority) \in {"critical", "high", "medium", "low"}
        THEN [label |-> Lower(raw_ticket.priority), conf |-> 100]
      ELSE KeywordUrgency(raw_ticket)

\* the summary the claim gives for a failed summarizer
FallbackSummary(t) ==
  IF t.subject # <<>> THEN Prefix(JoinWords(t.subject), 100)
  ELSE Prefix(JoinWords(t.body), 100)

\* C26: when the summarizer fails and process_ticket raises, something else
\* made it raise (an invalid document, the embedding model, a null
\* priority); when it returns, a document whose body went to the summarizer
\* has the first 100 characters of its subject, or of its body when it has
\* no subject, as summary.
SummaryFailureContained ==
  pc = "done" /\ ~flags.summary_ok =>
    /\ enriched = Raised =>
         \/ ~ValidRawTicket(raw_ticket)
         \/ ~flags.embedding_ok
         \/ "priority" \in DOMAIN raw_ticket /\ raw_ticket.priority = None
    /\ enriched # Raised /\ Len(raw_ticket.body) >= ShortBodyWords =>
         enriched.enrichment.summary = FallbackSummary(raw_ticket)

\* the summarizer failed on a long subject: the summary is cut at 100
SummaryFailureContainedWitness ==
  /\ pc = "done"
  /\ ~flags.summary_ok
  /\ enriched # Raised
  /\ raw_ticket.subject = LongText
  /\ raw_ticket.body = LongText
  /\ Len(enriched.enrichment.summary) = 100
  /\ Len(JoinWords(raw_ticket.subject)) > 100

\* ------------------------------------------------------ the stats counters
\* C27: the counters are 0 and start_time is unset before the construction,
\* which sets the counters to 0 and start_time to the time it is; from then
\* on start_time never changes, and the counters change only in the
\* handling of a message, one of them at a time and by +1.
StatsAppendOnly ==
  /\ stats = [tickets_processed |-> 0, tickets_failed |-> 0]
  /\ start_time = 0
  /\ [][/\ pc = "construct" /\ pc' = "poll"
             => /\ stats' = [tickets_processed |-> 0, tickets_failed |-> 0]
                /\ start_time' = clock
        /\ start_time' # start_time => pc = "construct" /\ start_time = 0
        /\ stats' # stats =>
             /\ pc \in MessagePcs
             /\ \/ /\ stats'.tickets_processed = stats.tickets_processed + 1
                   /\ stats'.tickets_failed = stats.tickets_failed
                \/ /\ stats'.tickets_failed = stats.tickets_failed + 1
                   /\ stats'.tickets_processed = stats.tickets_processed]_vars

\* the process has ended with counters that moved
StatsAppendOnlyWitness ==
  /\ pc = "exited"
  /\ printed = 1
  /\ start_time = 1
  /\ stats = [tickets_processed |-> 2, tickets_failed |-> 1]

\* --------------------------------------------------- projection and blob
\* the projection and the blob carry the same enrichment
SameEnrichment(item, o) ==
  /\ item.processed_at = o.Body.enrichment.processed_at
  /\ item.intent = o.Body.enrichment.intent
  /\ item.urgency = o.Body.enrichment.urgency
  /\ item.sentiment = o.Body.enrichment.sentiment
  /\ item.summary = o.Body.enrichment.summary

\* C28 as stated: outside store_results the projection and the blob of a
\* ticket carry the same enrichment.
SameAttempt ==
  StoreResultsReturned =>
    \A item \in table :
      \A o \in s3_enriched : o.Key = item.s3_key => SameEnrichment(item, o)

\* the record of the message in hand that store_results has just stored
JustStored ==
  IF pc = "delete" /\ ri > 0 THEN {ri}
  ELSE IF pc = "fetch" /\ ri > 1 THEN {ri - 1}
  ELSE {}

\* C28: right after a store_results that returned normally the projection
\* and the blob of its ticket carry the same enrichment; at any time the
\* projection and the blob of a ticket agree on intent and urgency.
SameAttemptAfterStore ==
  /\ \A item \in table :
       \A o \in s3_enriched :
         o.Key = item.s3_key =>
           /\ item.intent = o.Body.enrichment.intent
           /\ item.urgency = o.Body.enrichment.urgency
  /\ \A r \in JustStored :
       LET tid == RawObjects[Unit(Body.Records[r])].ticket_id
       IN /\ \E item \in table : item.ticket_id = tid
          /\ \E o \in s3_enriched : o.Key = S3Key(tid)
          /\ \A item \in table :
               \A o \in s3_enriched :
                 item.ticket_id = tid /\ o.Key = item.s3_key
                   => SameEnrichment(item, o)

\* the ticket just stored had been stored before
SameAttemptAfterStoreWitness ==
  /\ pc = "delete"
  /\ ri > 0
  /\ S3Key(RawObjects[Unit(Body.Records[ri])].ticket_id) \in overwritten

\* ----------------------------------------------- failures inside a message
\* C29: a message that failed before its delete call has its records stored
\* up to some record and no trace of any record after the next one; the
\* step in which a unit fails adds one to tickets_failed, leaves
\* tickets_processed and both stores as they are, and goes on to the next
\* message or to the return.
FirstFailureEndsMessage ==
  /\ [](\A i \in BatchIndexes :
          Happened("failed", i, 0) /\ ~Happened("delete_call", i, 0) =>
            \E k \in 0..Len(RecordsOf(i)) :
              /\ \A r \in 1..k : UnitStored(i, r) /\ Happened("stored", i, r)
              /\ \A e \in cyc :
                   e.m = i /\ e.r > 0 =>
                     /\ e.r <= k + 1
                     /\ e.r = k + 1 => e.ev \notin {"put_object", "stored"})
  /\ [][UnitFails =>
          /\ stats'.tickets_failed = stats.tickets_failed + 1
          /\ stats'.tickets_processed = stats.tickets_processed
          /\ table' = table
          /\ s3_enriched' = s3_enriched
          /\ queue' = queue
          /\ IF mi < Len(messages)
               THEN pc' = "parse" /\ mi' = mi + 1
               ELSE pc' = "return"]_vars

\* the second record of a message failed after the first was stored
FirstFailureEndsMessageWitness ==
  \E i \in BatchIndexes :
    /\ Len(RecordsOf(i)) = 2
    /\ Happened("stored", i, 1)
    /\ Happened("processed", i, 2)
    /\ Happened("failed", i, 0)
    /\ ~Happened("delete_call", i, 0)
    /\ stats.tickets_processed = 1
    /\ stats.tickets_failed = 1

\* C30: the step in which delete_message raises adds one to tickets_failed,
\* leaves tickets_processed, both stores and the queue as they are, with
\* the message on the queue, and goes on to the next message of the batch
\* or, after the last, to the return.
AckFailureContained ==
  [][pc = "delete" /\ Event("failed", mi, 0) \in cyc' =>
       /\ stats'.tickets_failed = stats.tickets_failed + 1
       /\ stats'.tickets_processed = stats.tickets_processed
       /\ table' = table
       /\ s3_enriched' = s3_enriched
       /\ queue' = queue
       /\ messages[mi] \in queue'
       /\ messages[mi] \notin visible'
       /\ messages' = messages
       /\ IF mi < Len(messages)
            THEN pc' = "parse" /\ mi' = mi + 1
            ELSE pc' = "return"]_vars

\* the delete call of the first message failed after both its records were
\* stored, and the second message of the batch was handled
AckFailureContainedWitness ==
  /\ pc = "return"
  /\ Len(messages) = 2
  /\ Len(RecordsOf(1)) = 2
  /\ AllUnitsStored(1)
  /\ Happened("delete_call", 1, 0)
  /\ Happened("failed", 1, 0)
  /\ Handled(2)
  /\ messages[1] \in queue
  /\ stats.tickets_processed >= 2

====
